---- MODULE Spec2Model ----
(***************************************************************************)
(* Model of the Delay class (src/src/Delay.cpp, src/src/Delay.h): a        *)
(* non-blocking timer polled against the wrapping millis() clock.          *)
(*                                                                         *)
(* The object is the record `delay`; every member function is an operator  *)
(* over (object, clock reading) translated from its body, and every public *)
(* mutating member function is one action, as is an assignment to the      *)
(* public data member isActive.  `unsigned long` is scaled down to the     *)
(* range 0..ULONG_MAX, with all arithmetic modulo ULONG_MAX + 1.           *)
(***************************************************************************)
EXTENDS Integers

\* Largest value of `unsigned long` in the model (the word width, scaled down).
ULONG_MAX == 3

\* Number of values of `unsigned long`: unsigned arithmetic is modulo Modulus.
Modulus == ULONG_MAX + 1

ULong == 0 .. ULONG_MAX

\* CallbackFunction: a null pointer, or a pointer to some function.
nullptr == "nullptr"
Callbacks == {nullptr, "fn"}

\* Most clock ticks that fall between two millis() reads of one call.
MaxCallTicks == 1

Min(a, b) == IF a < b THEN a ELSE b

Max(a, b) == IF a < b THEN b ELSE a

----------------------------------------------------------------------------
(* The member functions.  `self` is the object, `m` is what millis()        *)
(* returns to the call; a function that can read the clock twice takes the  *)
(* second reading as `m2` (the clock runs while the call executes).         *)

\* Delay::Delay(interval, isActive): the member initialisers; the interval is
\* stored as given, the other declared fields keep their default member
\* initialisers.  Delay.h declares no suspendDelta (it predates Delay.cpp) and
\* the constructor does not initialise it: the field starts with whatever
\* value `suspendDelta` the build leaves in it, 0 or any other.
Delay(interval, isActive, m, suspendDelta) ==
    [count |-> 0, interval |-> interval, timestamp |-> m, suspendTime |-> 0,
     suspendDelta |-> suspendDelta, callbackFunction |-> nullptr,
     isActive |-> isActive]

resetTime(self, m) == [self EXCEPT !.timestamp = m]

\* A plausible slip: enable() that forgets to restart the timer.
enableNoReset(self, m) ==
    [self EXCEPT !.isActive = TRUE, !.suspendTime = 0, !.suspendDelta = 0]

enable(self, m) ==
    resetTime([self EXCEPT !.isActive = TRUE, !.suspendTime = 0,
                           !.suspendDelta = 0], m)

\* A plausible slip: disable() that leaves the suspend window standing.
disableKeepSuspend(self) == [self EXCEPT !.isActive = FALSE]

disable(self) ==
    [self EXCEPT !.isActive = FALSE, !.suspendTime = 0, !.suspendDelta = 0]

getDelta(self, m) ==
    IF m < self.timestamp THEN (ULONG_MAX - self.timestamp + m) % Modulus
                          ELSE m - self.timestamp

\* suspend(): getDelta() reads the clock first (only with shouldContinue),
\* resetTime() reads it again at the end.
suspend(self, suspendTime, shouldContinue, m, m2) ==
    resetTime([self EXCEPT
                 !.suspendDelta = IF shouldContinue THEN getDelta(self, m) ELSE 0,
                 !.suspendTime = suspendTime,
                 !.isActive = FALSE], m2)

\* A plausible slip: setInterval() that forgets to restart the timer.
setIntervalNoReset(self, interval, m) ==
    IF interval > ULONG_MAX - 1
      THEN self
      ELSE [self EXCEPT !.interval = interval]

\* The clamp assigns the parameter, not the member: an interval above
\* ULONG_MAX - 1 leaves the stored interval as it was.
setInterval(self, interval, m) ==
    resetTime(IF interval > ULONG_MAX - 1
                THEN self
                ELSE [self EXCEPT !.interval = interval], m)

getInterval(self) == self.interval

setCallback(self, fn) == [self EXCEPT !.callbackFunction = fn]

hasCallback(self) == self.callbackFunction # nullptr

getCallback(self) == IF hasCallback(self) THEN self.callbackFunction ELSE nullptr

\* A plausible slip: the suspend window compared the wrong way round.
isOverEarly(self, m, m2) ==
    IF ~self.isActive /\ self.suspendTime = 0
      THEN [self |-> self, ret |-> FALSE]
      ELSE IF ~self.isActive /\ self.suspendTime # 0
        THEN [self |-> IF getDelta(self, m) <= self.suspendTime
                         THEN enable(self, m2) ELSE self,
              ret |-> FALSE]
        ELSE IF getDelta(self, m) >= (self.interval - self.suspendDelta) % Modulus
          THEN [self |-> [self EXCEPT !.count = (@ + 1) % Modulus,
                                      !.suspendDelta = 0],
                ret |-> TRUE]
          ELSE [self |-> self, ret |-> FALSE]

\* isOver(): the object after the call and the value returned.  Each branch
\* reads the clock once, in getDelta(); the enable() that ends a suspend
\* window reads it a second time.
isOver(self, m, m2) ==
    IF ~self.isActive /\ self.suspendTime = 0
      THEN [self |-> self, ret |-> FALSE]
      ELSE IF ~self.isActive /\ self.suspendTime # 0
        THEN [self |-> IF getDelta(self, m) >= self.suspendTime
                         THEN enable(self, m2) ELSE self,
              ret |-> FALSE]
        ELSE IF getDelta(self, m) >= (self.interval - self.suspendDelta) % Modulus
          THEN [self |-> [self EXCEPT !.count = (@ + 1) % Modulus,
                                      !.suspendDelta = 0],
                ret |-> TRUE]
          ELSE [self |-> self, ret |-> FALSE]

\* A plausible slip: isDone() that forgets to restart the timer.
isDoneNoReset(self, m, m2) == isOver(self, m, m2)

\* isDone(): isOver() reads the clock; on a true result resetTime() reads it
\* again.
isDone(self, m, m2) ==
    LET r == isOver(self, m, m2)
    IN  IF r.ret THEN [self |-> resetTime(r.self, m2), ret |-> TRUE] ELSE r

\* A plausible slip: execCallback() without the test of isActive.
execCallbackNoGuard(self, m) ==
    IF hasCallback(self)
      THEN LET r == isOver(self, m, m)
           IN  [self |-> r.self, ret |-> r.ret, called |-> r.ret]
      ELSE [self |-> self, ret |-> FALSE, called |-> FALSE]

\* execCallback(): && evaluates left to right and stops at the first false
\* operand, so isOver() runs only on an active timer that has a callback.
\* `called` tells whether the callback function was invoked.  On an active
\* timer isOver() reads the clock once.
execCallback(self, m) ==
    IF self.isActive /\ hasCallback(self)
      THEN LET r == isOver(self, m, m)
           IN  [self |-> r.self, ret |-> r.ret, called |-> r.ret]
      ELSE [self |-> self, ret |-> FALSE, called |-> FALSE]

getCount(self) == self.count

resetCount(self) == [self EXCEPT !.count = 0]

\* A plausible slip: isEven() without the test for zero.
isEvenPlain(self) == self.count % 2 = 0

isEven(self) == self.count % 2 = 0 /\ self.count # 0

isOdd(self) == self.count % 2 # 0 /\ self.count # 0

isNever(self) == self.count = 0

----------------------------------------------------------------------------
(* The state: the object, the clock, and what an observer of the calls      *)
(* records about them.                                                      *)

VARIABLES
    delay,      \* the Delay object
    now,        \* the reading millis() returns (after a call: the last
                \* reading the call took)
    op,         \* the last step: the member function called, "isActive"
                \* for a direct assignment to it, or "tick"
    arg,        \* the unsigned argument of the last setInterval/suspend/constructor call
    result,     \* the value the last isOver/isDone/execCallback call returned
    invoked,    \* whether the last call invoked the callback function
    anchor,     \* the last among constructor, enable, disable, suspend,
                \* setInterval, resetTime ("suspendContinue" is suspend(d, true))
                \* and a direct assignment to isActive
    elapsed,    \* clock ticks since the timestamp was last written (saturates
                \* at Modulus, "a full clock period or more")
    suspLeft,   \* ticks still to pass until d ticks have passed since the last
                \* suspend(d) call returned; 0 once enable() was called after it
    contK,      \* k, while a suspend(d, true) made on an active timer after
                \* 0 < k < interval ticks is followed only by ticks and isOver() polls
    overSeen    \* isOver() calls (counted up to 2) made from the one that first
                \* returned true on, with no resetTime, setInterval, enable,
                \* suspend, disable or isDone call and no wrap of the clock
                \* since then; 0 when there is none

vars == <<delay, now, op, arg, result, invoked, anchor, elapsed, suspLeft,
          contK, overSeen>>

Init ==
    /\ now \in ULong
    /\ \E interval \in ULong, isActive \in BOOLEAN, suspendDelta \in ULong :
          /\ delay = Delay(interval, isActive, now, suspendDelta)
          /\ arg = interval
    /\ op = "Delay"
    /\ result = FALSE
    /\ invoked = FALSE
    /\ anchor = "Delay"
    /\ elapsed = 0
    /\ suspLeft = 0
    /\ contK = 0
    /\ overSeen = 0

\* One millisecond passes: millis() wraps from ULONG_MAX to 0.
Tick ==
    /\ now' = (now + 1) % Modulus
    /\ elapsed' = Min(elapsed + 1, Modulus)
    /\ suspLeft' = IF suspLeft > 0 THEN suspLeft - 1 ELSE 0
    /\ overSeen' = IF now < ULONG_MAX THEN overSeen ELSE 0
    /\ op' = "tick"
    /\ arg' = 0 /\ result' = FALSE /\ invoked' = FALSE
    /\ UNCHANGED <<delay, anchor, contK>>

Enable ==
    /\ delay' = enable(delay, now)
    /\ op' = "enable"
    /\ anchor' = "enable"
    /\ elapsed' = 0
    /\ suspLeft' = 0
    /\ contK' = 0
    /\ overSeen' = 0
    /\ arg' = 0 /\ result' = FALSE /\ invoked' = FALSE
    /\ UNCHANGED now

Disable ==
    /\ delay' = disable(delay)
    /\ op' = "disable"
    /\ anchor' = "disable"
    /\ contK' = 0
    /\ overSeen' = 0
    /\ arg' = 0 /\ result' = FALSE /\ invoked' = FALSE
    /\ UNCHANGED <<now, elapsed, suspLeft>>

\* suspend(d, true) reads the clock twice, and k ticks fall in between.
Suspend ==
    \E suspendTime \in ULong, shouldContinue \in BOOLEAN, k \in 0 .. MaxCallTicks :
        /\ k > 0 => shouldContinue
        /\ now' = (now + k) % Modulus
        /\ delay' = suspend(delay, suspendTime, shouldContinue, now, now')
        /\ op' = "suspend"
        /\ anchor' = IF shouldContinue THEN "suspendContinue" ELSE "suspend"
        /\ arg' = suspendTime
        /\ elapsed' = 0
        /\ suspLeft' = suspendTime
        /\ contK' = IF shouldContinue /\ delay.isActive
                       /\ 0 < elapsed /\ elapsed < delay.interval
                      THEN elapsed ELSE 0
        /\ overSeen' = 0
        /\ result' = FALSE /\ invoked' = FALSE

SetInterval ==
    \E interval \in ULong :
        /\ delay' = setInterval(delay, interval, now)
        /\ op' = "setInterval"
        /\ anchor' = "setInterval"
        /\ arg' = interval
        /\ elapsed' = 0
        /\ contK' = 0
        /\ overSeen' = 0
        /\ result' = FALSE /\ invoked' = FALSE
        /\ UNCHANGED <<now, suspLeft>>

SetCallback ==
    \E fn \in Callbacks :
        /\ delay' = setCallback(delay, fn)
        /\ op' = "setCallback"
        /\ contK' = 0
        /\ arg' = 0 /\ result' = FALSE /\ invoked' = FALSE
        /\ UNCHANGED <<now, anchor, elapsed, suspLeft, overSeen>>

ResetTime ==
    /\ delay' = resetTime(delay, now)
    /\ op' = "resetTime"
    /\ anchor' = "resetTime"
    /\ elapsed' = 0
    /\ contK' = 0
    /\ overSeen' = 0
    /\ arg' = 0 /\ result' = FALSE /\ invoked' = FALSE
    /\ UNCHANGED <<now, suspLeft>>

ResetCount ==
    /\ delay' = resetCount(delay)
    /\ op' = "resetCount"
    /\ contK' = 0
    /\ arg' = 0 /\ result' = FALSE /\ invoked' = FALSE
    /\ UNCHANGED <<now, anchor, elapsed, suspLeft, overSeen>>

\* isOver() reads the clock a second time when it ends a suspend window, and
\* k ticks fall in between.
IsOver ==
    \E k \in 0 .. MaxCallTicks :
        LET m2 == (now + k) % Modulus
            r == isOver(delay, now, m2)
        IN  /\ k > 0 => (~delay.isActive /\ r.self.isActive)
            /\ now' = m2
            /\ delay' = r.self
            /\ result' = r.ret
            /\ op' = "isOver"
            /\ elapsed' = IF r.self.isActive # delay.isActive
                               \/ r.self.timestamp # delay.timestamp
                            THEN 0 ELSE elapsed
            /\ suspLeft' = Max(suspLeft - k, 0)
            /\ overSeen' = IF r.self.isActive # delay.isActive
                                \/ r.self.timestamp # delay.timestamp
                             THEN 0
                             ELSE IF overSeen > 0 \/ r.ret
                                     THEN Min(overSeen + 1, 2) ELSE 0
            /\ contK' = IF r.ret THEN 0 ELSE contK
            /\ arg' = 0 /\ invoked' = FALSE
            /\ UNCHANGED anchor

\* isDone() reads the clock a second time when it returns true or ends a
\* suspend window, and k ticks fall in between.
IsDone ==
    \E k \in 0 .. MaxCallTicks :
        LET m2 == (now + k) % Modulus
            r == isDone(delay, now, m2)
        IN  /\ k > 0 => (r.ret \/ (~delay.isActive /\ r.self.isActive))
            /\ now' = m2
            /\ delay' = r.self
            /\ result' = r.ret
            /\ op' = "isDone"
            /\ elapsed' = IF r.ret \/ r.self.isActive # delay.isActive
                               \/ r.self.timestamp # delay.timestamp
                            THEN 0 ELSE elapsed
            /\ suspLeft' = Max(suspLeft - k, 0)
            /\ overSeen' = 0
            /\ contK' = 0
            /\ arg' = 0 /\ invoked' = FALSE
            /\ UNCHANGED anchor

ExecCallback ==
    LET r == execCallback(delay, now)
    IN  /\ delay' = r.self
        /\ result' = r.ret
        /\ invoked' = r.called
        /\ op' = "execCallback"
        /\ contK' = 0
        /\ elapsed' = IF r.self.timestamp # delay.timestamp THEN 0 ELSE elapsed
        /\ arg' = 0
        /\ UNCHANGED <<now, anchor, suspLeft, overSeen>>

(* isActive is a public data member: a client may assign it directly, and  *)
(* the assignment touches no other field.                                   *)
WriteIsActive ==
    \E isActive \in BOOLEAN :
        /\ delay' = [delay EXCEPT !.isActive = isActive]
        /\ op' = "isActive"
        /\ anchor' = "isActive"
        /\ contK' = 0
        /\ arg' = 0 /\ result' = FALSE /\ invoked' = FALSE
        /\ UNCHANGED <<now, elapsed, suspLeft, overSeen>>

\* The calls of the public member functions, and the clock.
MemberNext ==
    \/ Tick
    \/ Enable
    \/ Disable
    \/ Suspend
    \/ SetInterval
    \/ SetCallback
    \/ ResetTime
    \/ ResetCount
    \/ IsOver
    \/ IsDone
    \/ ExecCallback

\* Everything a client of the class can do.
Next ==
    \/ MemberNext
    \/ WriteIsActive

Spec == Init /\ [][Next]_vars

\* A timer driven through its member functions only.
MemberSpec == Init /\ [][MemberNext]_vars

(* The polling loop of the documentation: a constructed timer on which      *)
(* nothing is called but isOver(), once at every clock reading.             *)

PollIsOver == op \in {"Delay", "tick"} /\ IsOver

PollTick == op = "isOver" /\ Tick

PollNext == PollIsOver \/ PollTick

\* The loop keeps running: neither the clock nor the polling stops.
PollSpec == Init /\ [][PollNext]_vars /\ WF_vars(PollIsOver) /\ WF_vars(PollTick)

(* A constructed timer driven by isDone() alone: any number of polls at any *)
(* clock reading, any number of ticks between them.                         *)

DoneNext == IsDone \/ Tick

DoneSpec == Init /\ [][DoneNext]_vars

----------------------------------------------------------------------------
(* The claims.                                                              *)

Polls == {"isOver", "isDone"}

\* The timer was last (re)started by the constructor or by setInterval.
Restarted == anchor \in {"Delay", "setInterval"}

\* C1: after setInterval(x) the stored interval, as getInterval() returns it,
\* is min(x, ULONG_MAX - 1), whatever it was before.
C1_SetIntervalClamps ==
    op = "setInterval" => getInterval(delay) = Min(arg, ULONG_MAX - 1)

\* C2: in every reachable state the stored interval is at most ULONG_MAX - 1.
C2_IntervalCapped == delay.interval <= ULONG_MAX - 1

\* C3: getDelta() returns the number e of clock ticks that passed since the
\* timestamp was set, for every 0 <= e <= ULONG_MAX, wrapped clock or not.
C3_DeltaIsElapsed ==
    elapsed <= ULONG_MAX => getDelta(delay, now) = elapsed

\* C4: an active timer with interval i > 0, restarted by the constructor or
\* setInterval: every isOver() or isDone() poll made while fewer than i ticks
\* have passed since the restart returns false and leaves the count unchanged.
C4_NoEarlyTrigger ==
    [][(/\ Restarted
        /\ delay.isActive
        /\ delay.interval > 0
        /\ elapsed < delay.interval
        /\ op' \in Polls)
       => (~result' /\ delay'.count = delay.count)]_vars

\* C5: an active timer with interval i > 0, restarted by the constructor or
\* setInterval: an isOver() poll made when i ticks or more (within one clock
\* period) have passed since the restart returns true, wrapped clock or not.
C5_TriggersAtInterval ==
    (/\ op = "isOver"
     /\ Restarted
     /\ delay.isActive
     /\ delay.interval > 0
     /\ elapsed >= delay.interval
     /\ elapsed <= ULONG_MAX)
    => result

\* C6: suspend(d, true) on an active timer after 0 < k < interval ticks; once
\* an isOver() poll has ended the window, isOver() returns true as soon as
\* interval - k further ticks have passed.
C6_ContinueCreditsElapsed ==
    (/\ op = "isOver"
     /\ contK > 0
     /\ delay.isActive
     /\ elapsed >= delay.interval - contK)
    => result

\* C7: after suspend(d), d >= 0, and nothing but polls, the first isOver()
\* poll made when at least d ticks have passed makes the timer active
\* (suspendTime = 0) and returns false.
C7_WindowEndsAtD ==
    [][(/\ anchor = "suspend"
        /\ ~delay.isActive
        /\ suspLeft = 0
        /\ op' = "isOver")
       => (delay'.isActive /\ delay'.suspendTime = 0 /\ ~result')]_vars

\* C8 as stated: after suspend(d), d > 0, every isOver(), isDone() or
\* execCallback() call made while fewer than d ticks have passed since the
\* suspend call returns false, invokes no callback, leaves the count
\* unchanged and leaves the timer inactive, unless enable() was called in
\* between.
C8_SilentInsideWindow ==
    [][(suspLeft > 0 /\ op' \in Polls \cup {"execCallback"})
       => (/\ ~result'
           /\ ~invoked'
           /\ delay'.count = delay.count
           /\ ~delay'.isActive)]_vars

\* C8 amended: the same, unless enable() was called or isActive was set to
\* true in between: every such call made while isActive is false.
C8_SilentWhileInactive ==
    [][(suspLeft > 0 /\ ~delay.isActive /\ op' \in Polls \cup {"execCallback"})
       => (/\ ~result'
           /\ ~invoked'
           /\ delay'.count = delay.count
           /\ ~delay'.isActive)]_vars

\* C8 witness: execCallback() with a callback set, called inside the window
\* after time has passed, did nothing.
C8_Witness ==
    /\ op = "execCallback" /\ ~result /\ ~invoked
    /\ suspLeft > 0 /\ elapsed > 0
    /\ hasCallback(delay) /\ ~delay.isActive /\ delay.suspendTime > 0

\* C9 as stated: for every interval, 0 included, when isDone() returns true
\* a second isDone() at the same clock reading returns false.
C9_SecondIsDoneFalse ==
    [][(op = "isDone" /\ result /\ op' = "isDone") => ~result']_vars

\* C9 amended: for every interval > 0, when isDone() returns true a second
\* isDone() at the same clock reading, with nothing in between, returns false.
C9_SecondIsDoneFalsePositive ==
    [][(op = "isDone" /\ result /\ delay.interval > 0 /\ op' = "isDone")
       => ~result']_vars

\* C9 witness: isDone() answered false at the reading at which the timestamp
\* was written by the one true isDone() of a timer that was only polled.
C9_Witness ==
    /\ op = "isDone" /\ ~result
    /\ anchor = "Delay" /\ delay.isActive /\ delay.interval > 0
    /\ delay.count = 1 /\ elapsed = 0 /\ delay.timestamp = now

\* C10: isOver() never writes the timestamp of an active timer, and once it
\* has returned true every further isOver() call (no wrap of the clock since,
\* within one clock period of the timestamp) returns true until resetTime,
\* setInterval, enable, suspend, disable or isDone is called.
C10_OverStaysOver ==
    [][(op' = "isOver")
       => /\ delay.isActive => delay'.timestamp = delay.timestamp
          /\ (overSeen > 0 /\ elapsed <= ULONG_MAX) => result']_vars

\* Disabled and not suspended.
Disabled == ~delay.isActive /\ delay.suspendTime = 0

AnyPoll == {"isOver", "isDone", "execCallback"}

\* C11 as stated: disable(), from any state, leaves the timer disabled and not
\* suspended; from then on, until enable() or suspend() is called, it stays
\* so and every isOver(), isDone() and execCallback() call returns false,
\* invokes nothing and leaves the count unchanged, whatever time has passed.
C11_DisabledStaysSilent ==
    [][/\ op' = "disable" => Disabled'
       /\ (Disabled /\ op' \notin {"enable", "suspend"})
          => /\ Disabled'
             /\ op' \in AnyPoll
                => (~result' /\ ~invoked' /\ delay'.count = delay.count)]_vars

\* C11 amended: the same, until enable() or suspend() is called or isActive
\* is assigned directly.
C11_DisabledUntilReactivated ==
    [][/\ op' = "disable" => Disabled'
       /\ (Disabled /\ op' \notin {"enable", "suspend", "isActive"})
          => /\ Disabled'
             /\ op' \in AnyPoll
                => (~result' /\ ~invoked' /\ delay'.count = delay.count)]_vars

\* C11 witness: a poll of a timer with a callback whose last restart is the
\* disable() call, made after more than the interval has passed.
C11_Witness ==
    /\ op \in AnyPoll /\ ~result
    /\ anchor = "disable" /\ Disabled
    /\ suspLeft = 0 /\ elapsed > delay.interval
    /\ hasCallback(delay)

\* C12: execCallback() invokes the callback and returns true if and only if,
\* at the moment of the call, the timer is active, a callback is set and
\* getDelta() >= interval; otherwise it returns false and invokes nothing.
C12_ExecCallbackIff ==
    [][(op' = "execCallback")
       => /\ result' = (/\ delay.isActive
                        /\ hasCallback(delay)
                        /\ getDelta(delay, now) >= delay.interval)
          /\ invoked' = result']_vars

\* C13: exactly one of isNever(), isEven(), isOdd() is true; isNever() iff
\* the count is 0, isEven() iff it is non-zero and even, isOdd() iff it is
\* odd; after resetCount() isNever() is true and the other two are false.
C13_NeverEvenOdd ==
    /\ isNever(delay) <=> getCount(delay) = 0
    /\ isEven(delay) <=> (getCount(delay) # 0 /\ getCount(delay) % 2 = 0)
    /\ isOdd(delay) <=> getCount(delay) % 2 = 1
    /\ \/ isNever(delay) /\ ~isEven(delay) /\ ~isOdd(delay)
       \/ ~isNever(delay) /\ isEven(delay) /\ ~isOdd(delay)
       \/ ~isNever(delay) /\ ~isEven(delay) /\ isOdd(delay)
    /\ op = "resetCount" => (isNever(delay) /\ ~isEven(delay) /\ ~isOdd(delay))

\* C13 witness: the second trigger has just been counted.
C13_Witness ==
    /\ op \in AnyPoll /\ result
    /\ getCount(delay) = 2 /\ isEven(delay) /\ ~isOdd(delay) /\ ~isNever(delay)

\* C14: across every call other than resetCount() the count never decreases:
\* it grows by exactly 1 on each isOver(), isDone() or execCallback() call
\* that returns true and is unchanged by every other call, for every value
\* the counter can hold.
C14_CountCountsTriggers ==
    [][(op' # "resetCount")
       => delay'.count = delay.count
                           + (IF op' \in AnyPoll /\ result' THEN 1 ELSE 0)]_vars

\* C15: an active timer whose interval is 0 returns true on every isOver()
\* poll, at the reading of its last restart and on a wrapped clock alike.
C15_ZeroIntervalAlwaysOver ==
    [][(delay.isActive /\ delay.interval = 0 /\ op' = "isOver")
       => result']_vars

\* C16: after suspend(d) without continuation, the isOver() poll that ends
\* the window writes that poll's clock reading (the one it takes last) to
\* the timestamp, and from then on isOver() returns false until a full
\* interval (interval > 0) has passed since that poll.
C16_FullIntervalAfterResume ==
    [][(anchor = "suspend" /\ op' = "isOver")
       => /\ (~delay.isActive /\ delay'.isActive) => delay'.timestamp = now'
          /\ (delay.isActive /\ delay.interval > 0 /\ elapsed < delay.interval)
             => ~result']_vars

\* C16 witness: resumed from a suspend without continuation, polled again
\* later and before the interval is over; the timestamp is the reading of
\* the resuming poll.
C16_Witness ==
    /\ op = "isOver" /\ ~result
    /\ anchor = "suspend" /\ delay.isActive
    /\ 0 < elapsed /\ elapsed < delay.interval
    /\ delay.timestamp = (now - elapsed) % Modulus

\* C17: execCallback() never writes the timestamp; when it returns true a
\* second execCallback() at the same clock reading invokes the callback
\* again; when it returns false the whole object is unchanged.
C17_ExecCallbackFrame ==
    [][(op' = "execCallback")
       => /\ delay'.timestamp = delay.timestamp
          /\ ~result' => delay' = delay
          /\ (op = "execCallback" /\ result) => (result' /\ invoked')]_vars

C20_ExecCallbackNeverResumes ==
    [][/\ (~delay.isActive /\ op' = "execCallback")
          => (delay' = delay /\ ~result' /\ ~invoked')
       /\ (~delay.isActive /\ delay'.isActive)
          => op' \in {"isOver", "isDone", "enable"}]_vars

\* C20 amended: the same, and an inactive timer becomes active only in an
\* isOver(), isDone() or enable() call or by a direct assignment to isActive.
C20_ExecCallbackLeavesInactive ==
    [][/\ (~delay.isActive /\ op' = "execCallback")
          => (delay' = delay /\ ~result' /\ ~invoked')
       /\ (~delay.isActive /\ delay'.isActive)
          => op' \in {"isOver", "isDone", "enable", "isActive"}]_vars

\* C20 witness: execCallback() with a callback set, called on a suspended
\* timer after its window is over, left it suspended.
C20_Witness ==
    /\ op = "execCallback" /\ ~result /\ ~invoked
    /\ anchor = "suspend" /\ hasCallback(delay)
    /\ ~delay.isActive /\ delay.suspendTime > 0
    /\ suspLeft = 0 /\ elapsed > delay.suspendTime

\* C21: resetTime() and setInterval() called inside a suspend window leave
\* isActive, suspendTime and suspendDelta unchanged and write the clock
\* reading to the timestamp; after such a call a poll re-activates the timer
\* only once suspendTime ticks have passed since that call.
C21_WindowRestartsAtReset ==
    [][/\ (/\ ~delay.isActive /\ delay.suspendTime > 0
           /\ op' \in {"resetTime", "setInterval"})
          => /\ delay'.isActive = delay.isActive
             /\ delay'.suspendTime = delay.suspendTime
             /\ delay'.suspendDelta = delay.suspendDelta
             /\ delay'.timestamp = now
       /\ (/\ anchor \in {"resetTime", "setInterval"}
           /\ ~delay.isActive /\ delay.suspendTime > 0
           /\ elapsed < delay.suspendTime
           /\ op' \in AnyPoll)
          => (~delay'.isActive /\ ~result')]_vars

\* C21 witness: the suspendTime ticks since the suspend() call have passed,
\* but fewer since the later resetTime() or setInterval() call, and a poll
\* has left the timer suspended.
C21_Witness ==
    /\ op \in Polls /\ ~result
    /\ anchor \in {"resetTime", "setInterval"}
    /\ ~delay.isActive /\ delay.suspendTime > 0
    /\ suspLeft = 0
    /\ 0 < elapsed /\ elapsed < delay.suspendTime

\* C22: an active timer with interval i > 0 driven only by isDone() polls:
\* every true result writes the clock reading of its poll (the one it takes
\* last) to the timestamp and clears the carried time, and a true result
\* that follows another one (the count is not 0, or, the count having
\* wrapped, no carried time stands) comes at least i clock ticks after the
\* timestamp was last written, which is at that previous true result.
C22_DoneResultsApart ==
    [][(/\ delay.isActive /\ delay.interval > 0
        /\ op' = "isDone" /\ result')
       => /\ delay'.timestamp = now'
          /\ delay'.suspendDelta = 0
          /\ (delay.count > 0 \/ delay.suspendDelta = 0)
             => elapsed >= delay.interval]_vars

\* C22 witness: the second true result of isDone().
C22_Witness ==
    /\ op = "isDone" /\ result
    /\ delay.isActive /\ delay.interval > 1
    /\ delay.count = 2 /\ delay.timestamp = now /\ elapsed = 0

====
